---------------------------- MODULE Spec2Model ----------------------------
(***************************************************************************)
(* crnpy/reaction.py: the Reaction entity, its in-place mutators           *)
(* (remove_react_prod, _fix_ma, _fix_denom) and the reaction-set functions *)
(* (_split_reaction, merge_reactions, _same_denom, translate,              *)
(* reaction_path).                                                         *)
(*                                                                         *)
(* Symbolic expressions.  A rate is a sympy expression.  The model keeps   *)
(* the part of an expression's structure the code reads (as_numer_denom,   *)
(* func.__name__, args) and its value as a rational function:              *)
(*                                                                         *)
(*     [m |-> monomial, p |-> polynomial, q |-> polynomial]                *)
(*                                                                         *)
(* stands for the product  m * p / q  as sympy holds it after automatic    *)
(* evaluation: m gathers every power of a symbol that is a direct factor   *)
(* (sympy's Mul adds the exponents of equal bases, negative ones too), p   *)
(* is the numeric coefficient or an Add of two or more terms kept as one   *)
(* factor, q is 1 or an Add kept as the base of a power -1.  A polynomial  *)
(* is a function from monomials to nonzero integer coefficients, a         *)
(* monomial a function from symbols to integer exponents.                  *)
(***************************************************************************)
EXTENDS Integers, Sequences, FiniteSets, TLC

Species == {"A", "B"}
Params  == {"k1", "k2"}
Syms    == Species \cup Params

\* ------------------------------------------------------------- bounds
\* largest number of molecules of a constructed complex
MaxStoich == 2
\* largest coefficient the _fix_ma loop is followed to
MaxCoef == 4
\* number of mutator calls followed on one reaction
MaxCalls == 2
\* longest list of reactions given to the reaction-set functions
MaxLen == 3
\* longest list of reactions given to reaction_path
MaxPath == 3

\* ---------------------------------------------------------- integers
Max2(a, b) == IF a >= b THEN a ELSE b
Min2(a, b) == IF a <= b THEN a ELSE b
Abs(a) == IF a >= 0 THEN a ELSE -a
SetMin(S) == CHOOSE x \in S : \A y \in S : x <= y
SetMax(S) == CHOOSE x \in S : \A y \in S : x >= y

RECURSIVE Gcd(_, _)
Gcd(a, b) == IF b = 0 THEN a ELSE Gcd(b, a % b)

RECURSIVE SetGcd(_)
SetGcd(S) ==
    IF S = {} THEN 0
    ELSE LET x == CHOOSE x \in S : TRUE IN Gcd(x, SetGcd(S \ {x}))

SeqRange(s) == {s[i] : i \in 1..Len(s)}

\* --------------------------------------------------------- monomials
MOne == [s \in Syms |-> 0]
MSym(s) == [t \in Syms |-> IF t = s THEN 1 ELSE 0]
MMul(a, b) == [s \in Syms |-> a[s] + b[s]]
MDiv(a, b) == [s \in Syms |-> a[s] - b[s]]
\* the factors with positive exponent, and the inverse of those with negative
MPos(a) == [s \in Syms |-> IF a[s] > 0 THEN a[s] ELSE 0]
MNeg(a) == [s \in Syms |-> IF a[s] < 0 THEN -a[s] ELSE 0]
MSupport(a) == {s \in Syms : a[s] # 0}
MLcm(a, b) == [s \in Syms |-> Max2(a[s], b[s])]
Mono(eA, eB, e1, e2) ==
    [s \in Syms |-> CASE s = "A" -> eA [] s = "B" -> eB [] s = "k1" -> e1 [] OTHER -> e2]

\* ------------------------------------------------------- polynomials
POne == MOne :> 1
PConst(c) == MOne :> c
PTerm(m) == m :> 1
PNumTerms(p) == Cardinality(DOMAIN p)
PShift(p, m) == [e \in {MMul(d, m) : d \in DOMAIN p} |-> p[MDiv(e, m)]]
PCoef(p, e) == IF e \in DOMAIN p THEN p[e] ELSE 0
PAdd(p, q) == [e \in {d \in DOMAIN p \cup DOMAIN q : PCoef(p, d) + PCoef(q, d) # 0}
                  |-> PCoef(p, e) + PCoef(q, e)]

RECURSIVE SumPairs(_, _, _)
SumPairs(S, p, q) ==
    IF S = {} THEN 0
    ELSE LET x == CHOOSE x \in S : TRUE
         IN  p[x[1]] * q[x[2]] + SumPairs(S \ {x}, p, q)

PMul(p, q) ==
    LET prod(e) == SumPairs({x \in (DOMAIN p) \X (DOMAIN q) : MMul(x[1], x[2]) = e}, p, q)
        es == {MMul(x[1], x[2]) : x \in (DOMAIN p) \X (DOMAIN q)}
    IN  [e \in {d \in es : prod(d) # 0} |-> prod(e)]

\* the monomial content: the largest monomial dividing every term
PContent(p) == [s \in Syms |-> SetMin({e[s] : e \in DOMAIN p})]
\* the integer content
PIntContent(p) == SetGcd({Abs(p[e]) : e \in DOMAIN p})
PScaleDown(p, c) == [e \in DOMAIN p |-> p[e] \div c]


\* ------------------------------------------------------- expressions
\* sympy's automatic evaluation of the product m * p / q: a p of one term
\* is a monomial and joins the other powers
Norm(m, p, q) ==
    IF PNumTerms(p) = 1
    THEN LET e == CHOOSE e \in DOMAIN p : TRUE
         IN  [m |-> MMul(m, e), p |-> PConst(p[e]), q |-> q]
    ELSE [m |-> m, p |-> p, q |-> q]

ExprMulMono(E, mo) == Norm(MMul(E.m, mo), E.p, E.q)
ExprDivMono(E, mo) == Norm(MDiv(E.m, mo), E.p, E.q)

\* as_numer_denom(): the factors with negative exponent make the denominator,
\* the rest the numerator; nothing is cancelled
Numer(E) == PShift(E.p, MPos(E.m))
Denom(E) == PShift(E.q, MNeg(E.m))

\* (n / d).cancel(): numerator and denominator expanded and without common
\* factor.  The rates drawn have no common factor other than a monomial.
CancelFrac(n, d) ==
    LET gn == PContent(n)
        gd == PContent(d)
        g  == [s \in Syms |-> Min2(gn[s], gd[s])]
        n1 == PShift(n, MDiv(MOne, g))
        d1 == PShift(d, MDiv(MOne, g))
    IN  IF PNumTerms(d1) = 1
        THEN Norm(MDiv(MOne, CHOOSE e \in DOMAIN d1 : TRUE), n1, POne)
        ELSE Norm(MOne, n1, d1)

Cancel(E) == CancelFrac(Numer(E), Denom(E))

\* (E1 - E2).cancel() == 0
ExprEq(E1, E2) == PMul(Numer(E1), Denom(E2)) = PMul(Numer(E2), Denom(E1))

\* L.factor() of a Laurent polynomial L whose cofactor is irreducible: the
\* integer content c, the powers of symbols m (negative exponents are powers
\* Pow(s, -n)), and whether a factor of two or more terms is left
Factor(L) ==
    [c |-> PIntContent(L), m |-> PContent(L), cof |-> PNumTerms(L) >= 2]

\* remainder.func.__name__ == 'Mul': two factors or more
FactorIsMul(f) ==
    (IF f.c # 1 THEN 1 ELSE 0) + Cardinality(MSupport(f.m)) + (IF f.cof THEN 1 ELSE 0) >= 2

\* ---------------------------------------------------------- Complex
\* a Counter: species -> coefficient; a missing key reads 0
None == "None"
Coef(c, s) == IF s \in DOMAIN c THEN c[s] ELSE 0
Positive(f) == [s \in {t \in DOMAIN f : f[t] > 0} |-> f[s]]
CAdd(a, b) == Positive([s \in DOMAIN a \cup DOMAIN b |-> Coef(a, s) + Coef(b, s)])
CSub(a, b) == Positive([s \in DOMAIN a |-> a[s] - Coef(b, s)])
CAnd(a, b) == Positive([s \in DOMAIN a \cap DOMAIN b |-> Min2(a[s], b[s])])
CSet(c, s, v) == [t \in DOMAIN c \cup {s} |-> IF t = s THEN v ELSE c[t]]
CDel(c, s) == [t \in DOMAIN c \ {s} |-> c[t]]
\* the mass action monomial
ma(c) == [s \in Syms |-> Coef(c, s)]

\* the complexes of at most n molecules
Complexes(n) ==
    {c \in UNION {[D -> 1..n] : D \in SUBSET Species} :
        Coef(c, "A") + Coef(c, "B") <= n}

\* ---------------------------------------------------------- Reaction
VARIABLES
    reactionid,     \* Reaction._reactionid
    reactant,       \* Reaction._reactant
    product,        \* Reaction._product
    rate,           \* Reaction.__rate
    kinetic_param,  \* Reaction.__kinetic_param
    pc,             \* "idle", or "fix_ma" inside the while loop of _fix_ma
    fm,             \* _fix_ma's locals: species, remainder; the passes made
    last,           \* the last call made on the reaction
    ncalls,         \* the calls made so far
    setst,          \* the reaction-set functions: input, operation, output
    pathst          \* reaction_path: input, output

vars == <<reactionid, reactant, product, rate, kinetic_param, pc, fm, last,
          ncalls, setst, pathst>>

\* a kinetic parameter that is the rate itself, not divided by reactant.ma()
DeriveKineticParamUndivided(r, c) == r

\* rate / reactant.ma()
DeriveKineticParam(r, c) == ExprDivMono(r, ma(c))

\* a setter that stores the cancelled value, not multiplied by reactant.ma()
RateFromKineticParamUnscaled(value, c) == Cancel(value)

\* the setter of _kinetic_param: the rate is (value * reactant.ma()).cancel()
RateFromKineticParam(value, c) == Cancel(ExprMulMono(value, ma(c)))

\* the rates a reaction is constructed with
K1 == MSym("k1")
K2 == MSym("k2")
MonoRates ==
    { Mono(0, 0, 1, 0), Mono(1, 0, 1, 0), Mono(2, 0, 1, 0), Mono(-1, 0, 1, 0),
      Mono(1, 1, 0, 0), Mono(-1, -1, 1, 0), Mono(-2, 1, 1, 0) }
AddRates ==
    { [m |-> MOne, p |-> (Mono(1, 0, 1, 0) :> 1) @@ (Mono(0, 1, 0, 1) :> 1), q |-> POne],
      [m |-> MOne, p |-> (Mono(1, 0, 1, 0) :> 1) @@ (Mono(2, 0, 0, 1) :> 1), q |-> POne],
      [m |-> Mono(0, -1, 0, 0), p |-> (Mono(0, 0, 1, 0) :> 1) @@ (Mono(1, 0, 0, 1) :> 1), q |-> POne] }
Rates == {[m |-> e, p |-> POne, q |-> POne] : e \in MonoRates} \cup AddRates

\* the species arguments of _fix_ma and _fix_denom, iterated in order
SpeciesLists == {<<>>, <<"A">>, <<"B">>, <<"A", "B">>, <<"B", "A">>}

Self == [reactionid |-> reactionid, reactant |-> reactant, product |-> product,
         rate |-> rate, kinetic_param |-> kinetic_param]

\* a remove_react_prod(species) that subtracts the smaller coefficient from
\* the larger one and leaves the smaller one in place
RemoveReactProdKeepsSmaller(self, species) ==
    LET r == self.reactant
        p == self.product
        common == CAnd(r, p)
        both == species \in DOMAIN r /\ species \in DOMAIN p
        newr == IF species = None THEN CSub(r, common)
                ELSE IF both /\ r[species] > p[species]
                     THEN CSet(r, species, r[species] - p[species])
                     ELSE IF both /\ r[species] = p[species] THEN CDel(r, species) ELSE r
        newp == IF species = None THEN CSub(p, common)
                ELSE IF both /\ p[species] > r[species]
                     THEN CSet(p, species, p[species] - r[species])
                     ELSE IF both /\ r[species] = p[species] THEN CDel(p, species) ELSE p
    IN  [self EXCEPT !.reactant = newr, !.product = newp,
                     !.kinetic_param = DeriveKineticParam(self.rate, newr)]

\* remove_react_prod(species)
RemoveReactProd(self, species) ==
    LET r == self.reactant
        p == self.product
        common == CAnd(r, p)
        newr == IF species = None THEN CSub(r, common)
                ELSE IF species \in DOMAIN r /\ species \in DOMAIN p
                     THEN IF r[species] > p[species]
                          THEN CSet(r, species, r[species] - p[species])
                          ELSE CDel(r, species)
                     ELSE r
        newp == IF species = None THEN CSub(p, common)
                ELSE IF species \in DOMAIN r /\ species \in DOMAIN p
                     THEN IF p[species] > r[species]
                          THEN CSet(p, species, p[species] - r[species])
                          ELSE CDel(p, species)
                     ELSE p
    IN  [self EXCEPT !.reactant = newr, !.product = newp,
                     !.kinetic_param = DeriveKineticParam(self.rate, newr)]

\* _fix_ma: the remainder (num / reactant.ma()).factor()
FixMaRemainder(self) ==
    Factor(PShift(Numer(self.rate), MDiv(MOne, ma(self.reactant))))

\* the symbols of mulargs: the factors and the bases of the powers of a Mul
FixMaMulArgs(rem) == IF FactorIsMul(rem) THEN MSupport(rem.m) ELSE {}

\* one pass of the for loop in the while loop of _fix_ma, from species[i] on
RECURSIVE FixMaFor(_, _, _)
FixMaFor(st, species, i) ==
    IF i > Len(species) THEN st
    ELSE LET s == species[i]
         IN  IF s \in FixMaMulArgs(st.rem)
             THEN FixMaFor([reactant |-> CSet(st.reactant, s, Coef(st.reactant, s) + 1),
                            product  |-> CSet(st.product, s, Coef(st.product, s) + 1),
                            rem      |-> [st.rem EXCEPT !.m[s] = @ - 1]],
                           species, i + 1)
             ELSE FixMaFor(st, species, i + 1)

\* the condition of the while loop of _fix_ma
FixMaGuard(rem, species) == \E s \in SeqRange(species) : s \in FixMaMulArgs(rem)

\* _fix_denom: the symbols of mulargs after remainder = (remainder / s).factor()
FixDenomMulArgs(rem, species) ==
    IF Cardinality(MSupport(rem)) >= 2 THEN MSupport(rem)
    ELSE {s \in SeqRange(species) : rem = MSym(s)}

RECURSIVE FixDenomFor(_, _, _)
FixDenomFor(st, species, i) ==
    IF i > Len(species) THEN st
    ELSE LET s == species[i]
         IN  IF s \in st.mulargs /\ s \in DOMAIN st.reactant /\ s \in DOMAIN st.product
             THEN LET rem == [st.rem EXCEPT ![s] = @ - 1]
                  IN  FixDenomFor(
                        [reactant |-> IF st.reactant[s] = 1 THEN CDel(st.reactant, s)
                                      ELSE CSet(st.reactant, s, st.reactant[s] - 1),
                         product  |-> IF st.product[s] = 1 THEN CDel(st.product, s)
                                      ELSE CSet(st.product, s, st.product[s] - 1),
                         rem      |-> rem,
                         mulargs  |-> FixDenomMulArgs(rem, species)],
                        species, i + 1)
             ELSE FixDenomFor(st, species, i + 1)

FixDenomGuard(st, species) ==
    \E s \in SeqRange(species) :
        s \in st.mulargs /\ s \in DOMAIN st.reactant /\ s \in DOMAIN st.product

RECURSIVE FixDenomWhile(_, _)
FixDenomWhile(st, species) ==
    IF FixDenomGuard(st, species)
    THEN FixDenomWhile(FixDenomFor(st, species, 1), species)
    ELSE st

\* _fix_denom(species).  raised: whether the call ends in an exception
FixDenom(self, species) ==
    LET rem0 == MNeg(self.kinetic_param.m)
        st0 == [reactant |-> self.reactant, product |-> self.product,
                rem |-> rem0, mulargs |-> MSupport(rem0)]
        st == IF rem0 # MOne THEN FixDenomWhile(st0, species) ELSE st0
        value == DeriveKineticParam(self.rate, st.reactant)
        newrate == RateFromKineticParam(value, st.reactant)
    IN  [self |-> [self EXCEPT !.reactant = st.reactant, !.product = st.product,
                               !.rate = newrate,
                               !.kinetic_param = DeriveKineticParam(newrate, st.reactant)],
         raised |-> FALSE]

\* ------------------------------------------- one reaction, mutated
\* identifiers are strings, held as sequences of character codes
IdR1 == <<114, 49>>

NoFm == [species |-> <<>>, rem |-> Factor(POne), rem0 |-> Factor(POne), iters |-> 0]
NoSet == [op |-> "none", in |-> <<>>, out |-> <<>>]
NoPath == [op |-> "none", in |-> <<>>, out |-> <<>>, additions |-> <<>>, raw |-> <<>>,
           c |-> <<>>, raised |-> FALSE]

\* Reaction(reactionid, reactant, product, rate): the setter of _rate derives
\* the kinetic parameter
Construct ==
    /\ reactionid = IdR1
    /\ reactant \in Complexes(MaxStoich)
    /\ product \in Complexes(MaxStoich)
    /\ rate \in Rates
    /\ kinetic_param = DeriveKineticParam(rate, reactant)

Init ==
    /\ Construct
    /\ pc = "idle"
    /\ fm = NoFm
    /\ last = [op |-> "init", arg |-> None, rep |-> FALSE, raised |-> FALSE,
               underflow |-> FALSE, changed |-> FALSE]
    /\ ncalls = 0
    /\ setst = NoSet
    /\ pathst = NoPath

\* the record of a call.  rep: the call before was the same call; underflow:
\* at the call a listed species divided the denominator of the kinetic
\* parameter and was missing from the reactant or from the product; changed:
\* the call changed the reactant or the product
Underflow(self, species) ==
    \E s \in SeqRange(species) :
        /\ MNeg(self.kinetic_param.m)[s] >= 1
        /\ (s \notin DOMAIN self.reactant \/ s \notin DOMAIN self.product)

Called(op, arg, raised, underflow, changed) ==
    /\ ncalls' = ncalls + 1
    /\ last' = [op |-> op, arg |-> arg, rep |-> (last.op = op /\ last.arg = arg),
                raised |-> raised, underflow |-> underflow, changed |-> changed]

Assign(self) ==
    /\ reactionid' = self.reactionid
    /\ reactant' = self.reactant
    /\ product' = self.product
    /\ rate' = self.rate
    /\ kinetic_param' = self.kinetic_param

CallRemoveReactProd ==
    /\ pc = "idle" /\ ncalls < MaxCalls
    /\ \E species \in {None} \cup Species :
          LET res == RemoveReactProd(Self, species)
          IN  /\ Assign(res)
              /\ Called("remove_react_prod", species, FALSE, FALSE,
                        res.reactant # reactant \/ res.product # product)
    /\ UNCHANGED <<pc, fm, setst, pathst>>

\* _fix_ma up to the while loop; a remainder that is no Mul returns at once
CallFixMa ==
    /\ pc = "idle" /\ ncalls < MaxCalls
    /\ \E species \in SpeciesLists :
          LET rem == FixMaRemainder(Self)
          IN  /\ Called("_fix_ma", species, FALSE, FALSE, FALSE)
              /\ IF FactorIsMul(rem)
                 THEN /\ pc' = "fix_ma"
                      /\ fm' = [species |-> species, rem |-> rem, rem0 |-> rem, iters |-> 0]
                 ELSE UNCHANGED <<pc, fm>>
    /\ UNCHANGED <<reactionid, reactant, product, rate, kinetic_param, setst, pathst>>

\* one pass of the while loop of _fix_ma
FixMaPass ==
    /\ pc = "fix_ma"
    /\ FixMaGuard(fm.rem, fm.species)
    /\ LET st == FixMaFor([reactant |-> reactant, product |-> product, rem |-> fm.rem],
                          fm.species, 1)
       IN  /\ \A s \in Species : Coef(st.reactant, s) <= MaxCoef /\ Coef(st.product, s) <= MaxCoef
           /\ reactant' = st.reactant
           /\ product' = st.product
           /\ fm' = [fm EXCEPT !.rem = st.rem, !.iters = @ + 1]
    /\ last' = [last EXCEPT !.changed = TRUE]
    /\ UNCHANGED <<reactionid, rate, kinetic_param, pc, ncalls, setst, pathst>>

\* the while loop of _fix_ma ends: the kinetic parameter is updated
FixMaReturn ==
    /\ pc = "fix_ma"
    /\ ~FixMaGuard(fm.rem, fm.species)
    /\ kinetic_param' = DeriveKineticParam(rate, reactant)
    /\ pc' = "idle"
    /\ fm' = NoFm
    /\ UNCHANGED <<reactionid, reactant, product, rate, last, ncalls, setst, pathst>>

CallFixDenom ==
    /\ pc = "idle" /\ ncalls < MaxCalls
    /\ \E species \in SpeciesLists :
          LET res == FixDenom(Self, species)
          IN  /\ Assign(res.self)
              /\ Called("_fix_denom", species, res.raised, Underflow(Self, species),
                        res.self.reactant # reactant \/ res.self.product # product)
    /\ UNCHANGED <<pc, fm, setst, pathst>>

Next ==
    \/ CallRemoveReactProd
    \/ CallFixMa
    \/ FixMaPass
    \/ FixMaReturn
    \/ CallFixDenom

Spec == Init /\ [][Next]_vars

\* ------------------------------------------------ sets of reactions
\* character codes of the identifiers
Underscore == 95
Digit0 == 48
Str(n) == <<Digit0 + n>>
Id(n) == <<114, Digit0 + n>>

\* Reaction(reactionid, reactant, product, rate)
Reaction(id, r, p, rt) ==
    [reactionid |-> id, reactant |-> r, product |-> p, rate |-> rt,
     kinetic_param |-> DeriveKineticParam(rt, r)]

\* Reaction.__eq__
ReactionEq(x, y) ==
    x.reactant = y.reactant /\ x.product = y.product /\ ExprEq(x.rate, y.rate)

\* the terms of an Add, in the order of its args (an order sympy fixes; the
\* model takes the terms of k1 before those of k2, then lower powers of A, B
\* first)
MonoBefore(a, b) ==
    LET ka == <<-a["k1"], -a["k2"], a["A"], a["B"]>>
        kb == <<-b["k1"], -b["k2"], b["A"], b["B"]>>
    IN  \E i \in 1..4 : ka[i] < kb[i] /\ \A j \in 1..(i - 1) : ka[j] = kb[j]

RECURSIVE TermSeq(_)
TermSeq(S) ==
    IF S = {} THEN <<>>
    ELSE LET x == CHOOSE x \in S : \A y \in S \ {x} : MonoBefore(x, y)
         IN  <<x>> \o TermSeq(S \ {x})

\* a _split_reaction that leaves out the last addend of the rate
SplitReactionShort(reaction) ==
    LET ratenumer == Numer(reaction.rate)
        rateadds == TermSeq(DOMAIN ratenumer)
    IN  IF PNumTerms(ratenumer) >= 2
        THEN [ra \in 1..(Len(rateadds) - 1) |->
                Reaction(reaction.reactionid \o <<Underscore>> \o Str(ra - 1),
                         reaction.reactant, reaction.product,
                         Norm(MDiv(rateadds[ra], MNeg(reaction.rate.m)),
                              PConst(ratenumer[rateadds[ra]]), reaction.rate.q))]
        ELSE <<reaction>>

\* _split_reaction(reaction)
SplitReaction(reaction) ==
    LET ratenumer == Numer(reaction.rate)
        rateadds == TermSeq(DOMAIN ratenumer)
    IN  IF PNumTerms(ratenumer) >= 2
        THEN [ra \in 1..Len(rateadds) |->
                Reaction(reaction.reactionid \o <<Underscore>> \o Str(ra - 1),
                         reaction.reactant, reaction.product,
                         Norm(MDiv(rateadds[ra], MNeg(reaction.rate.m)),
                              PConst(ratenumer[rateadds[ra]]), reaction.rate.q))]
        ELSE <<reaction>>

\* the keys of the dictionary react, in the order of their first reaction
Key(x) == <<x.reactant, x.product>>

RECURSIVE GroupKeys(_)
GroupKeys(rs) ==
    IF rs = <<>> THEN <<>>
    ELSE LET k == Key(Head(rs))
         IN  <<k>> \o GroupKeys(SelectSeq(Tail(rs), LAMBDA x : Key(x) # k))

Members(rs, k) == SelectSeq(rs, LAMBDA x : Key(x) = k)

RECURSIVE ConcatIds(_)
ConcatIds(ms) == IF ms = <<>> THEN <<>> ELSE Head(ms).reactionid \o ConcatIds(Tail(ms))

\* sum([reaction.rate ...]) as a fraction: 0 + rate + rate + ...
RECURSIVE SumRates(_, _)
SumRates(ms, acc) ==
    IF ms = <<>> THEN acc
    ELSE LET e == Head(ms).rate
         IN  SumRates(Tail(ms),
                      [n |-> PAdd(PMul(acc.n, Denom(e)), PMul(Numer(e), acc.d)),
                       d |-> PMul(acc.d, Denom(e))])

Zero == [e \in {} |-> 0]

\* the comparison of two identifiers as strings
RECURSIVE StrLeq(_, _)
StrLeq(a, b) ==
    IF a = <<>> THEN TRUE
    ELSE IF b = <<>> THEN FALSE
    ELSE IF Head(a) # Head(b) THEN Head(a) < Head(b)
    ELSE StrLeq(Tail(a), Tail(b))

\* sorted(newreactions, key = lambda r: r.reactionid): a stable sort
RECURSIVE Insert(_, _)
Insert(sorted, x) ==
    IF sorted = <<>> THEN <<x>>
    ELSE IF StrLeq(Head(sorted).reactionid, x.reactionid)
         THEN <<Head(sorted)>> \o Insert(Tail(sorted), x)
         ELSE <<x>> \o sorted

RECURSIVE SortById(_)
SortById(rs) ==
    IF rs = <<>> THEN <<>> ELSE Insert(SortById(SubSeq(rs, 1, Len(rs) - 1)), rs[Len(rs)])

RECURSIVE MergeGroups(_, _)
MergeGroups(rs, keys) ==
    IF keys = <<>> THEN <<>>
    ELSE LET c == Head(keys)
             ms == Members(rs, c)
             sum == SumRates(ms, [n |-> Zero, d |-> POne])
         IN  (IF ms[1].reactant # ms[1].product
              THEN <<Reaction(ConcatIds(ms), ms[1].reactant, ms[1].product,
                              CancelFrac(sum.n, sum.d))>>
              ELSE <<>>)
             \o MergeGroups(rs, Tail(keys))

\* a merge_reactions that returns the merged reactions in the order of their
\* first input reaction, unsorted
MergeReactionsUnsorted(rs) == MergeGroups(rs, GroupKeys(rs))

\* merge_reactions(reactions)
MergeReactions(rs) == SortById(MergeGroups(rs, GroupKeys(rs)))

\* sp.lcm of two denominators m * q, q being 1 or an irreducible Add
DenomLcm(a, b) ==
    [m |-> MLcm(a.m, b.m),
     q |-> IF a.q = b.q THEN a.q ELSE IF a.q = POne THEN b.q
           ELSE IF b.q = POne THEN a.q ELSE PMul(a.q, b.q)]

FactoredDenom(E) == [m |-> MNeg(E.m), q |-> E.q]

RECURSIVE ReduceLcm(_, _)
ReduceLcm(ds, acc) == IF ds = <<>> THEN acc ELSE ReduceLcm(Tail(ds), DenomLcm(acc, Head(ds)))

\* commondenom = reduce(sp.lcm, denoms), of a non-empty list
CommonDenom(rs) ==
    ReduceLcm(Tail([i \in 1..Len(rs) |-> FactoredDenom(rs[i].rate)]), FactoredDenom(rs[1].rate))

\* coefficient * monomial * numer / commondenom: a commondenom that is an Add
\* stays the base of a power -1, a monomial joins the other powers
OverCommonDenom(e, coef, numerm, numerp, cd) ==
    IF cd.q = POne
    THEN Norm(MDiv(MMul(e, numerm), cd.m), [d \in DOMAIN numerp |-> coef * numerp[d]], POne)
    ELSE Norm(MMul(e, numerm), [d \in DOMAIN numerp |-> coef * numerp[d]], PShift(cd.q, cd.m))

\* the reactions _same_denom makes of reactions[r]
SameDenomOne(reaction, cd) ==
    LET own == FactoredDenom(reaction.rate)
        numerm == MPos(reaction.rate.m)
        numerp == reaction.rate.p
        diff == PShift(IF own.q = cd.q THEN POne ELSE cd.q, MDiv(cd.m, own.m))
        rateadds == TermSeq(DOMAIN diff)
    IN  IF own # cd
        THEN IF PNumTerms(diff) >= 2
             THEN [ra \in 1..Len(rateadds) |->
                     Reaction(reaction.reactionid \o <<Underscore>> \o Str(ra - 1),
                              reaction.reactant, reaction.product,
                              OverCommonDenom(rateadds[ra], diff[rateadds[ra]],
                                              numerm, numerp, cd))]
             ELSE <<Reaction(reaction.reactionid, reaction.reactant, reaction.product,
                             OverCommonDenom(rateadds[1], diff[rateadds[1]],
                                             numerm, numerp, cd))>>
        ELSE <<reaction>>

RECURSIVE SameDenomFrom(_, _, _)
SameDenomFrom(rs, cd, r) ==
    IF r > Len(rs) THEN <<>>
    ELSE SameDenomOne(rs[r], cd) \o SameDenomFrom(rs, cd, r + 1)

\* _same_denom(reactions), of a non-empty list
SameDenom(rs) == SameDenomFrom(rs, CommonDenom(rs), 1)

\* str(c) of a complex with " " removed, "+" made "_" and "-" made "m"
LetterCode(s) == IF s = "A" THEN 65 ELSE 66
SpeciesStr(c, s) ==
    IF s \notin DOMAIN c THEN <<>>
    ELSE IF c[s] = 1 THEN <<LetterCode(s)>> ELSE <<Digit0 + c[s], LetterCode(s)>>
ComplexStr(c) ==
    SpeciesStr(c, "A")
      \o (IF "A" \in DOMAIN c /\ "B" \in DOMAIN c THEN <<Underscore>> ELSE <<>>)
      \o SpeciesStr(c, "B")

\* translate(reaction, c)
Translate(reaction, c) ==
    Reaction(reaction.reactionid \o <<Underscore>> \o ComplexStr(c),
             CAdd(reaction.reactant, c), CAdd(reaction.product, c), reaction.rate)

\* the list of a reaction_path whose second range starts at h, not at h + 1
AdditionTermsFromH(rs, h) ==
    [i \in 1..(h - 1) |-> rs[i].product]
      \o [i \in 1..(Len(rs) - h + 1) |-> rs[h + i - 1].reactant]

\* the list reduced for additions[h]: the products of the reactions before
\* position h, then the reactants of the reactions after it
AdditionTerms(rs, h) ==
    [i \in 1..(h - 1) |-> rs[i].product]
      \o [i \in 1..(Len(rs) - h) |-> rs[h + i].reactant]

\* reduce(f, list) of a non-empty list
RECURSIVE ReduceAdd(_)
ReduceAdd(cs) ==
    IF Len(cs) = 1 THEN cs[1]
    ELSE CAdd(ReduceAdd(SubSeq(cs, 1, Len(cs) - 1)), cs[Len(cs)])

RECURSIVE ReduceAnd(_)
ReduceAnd(cs) ==
    IF Len(cs) = 1 THEN cs[1]
    ELSE CAnd(ReduceAnd(SubSeq(cs, 1, Len(cs) - 1)), cs[Len(cs)])

\* reaction_path(reactions).  reduce() of an empty list raises TypeError;
\* raw: the additions before c is subtracted
ReactionPath(rs) ==
    IF rs = <<>> \/ \E h \in 1..Len(rs) : AdditionTerms(rs, h) = <<>>
    THEN [raised |-> TRUE, out |-> <<>>, additions |-> <<>>, raw |-> <<>>, c |-> <<>>]
    ELSE LET raw == [h \in 1..Len(rs) |-> ReduceAdd(AdditionTerms(rs, h))]
             c == ReduceAnd(raw)
             additions == [h \in 1..Len(rs) |-> CSub(raw[h], c)]
         IN  [raised |-> FALSE,
              out |-> [h \in 1..Len(rs) |-> Translate(rs[h], additions[h])],
              additions |-> additions, raw |-> raw, c |-> c]

\* ------------------------------------- the reaction-set functions, applied
CA == [s \in {"A"} |-> 1]
CB == [s \in {"B"} |-> 1]
C2A == [s \in {"A"} |-> 2]
CAB == [s \in {"A", "B"} |-> 1]
C0 == [s \in {} |-> 1]
PD == (Mono(1, 0, 0, 0) :> 1) @@ (Mono(0, 1, 0, 0) :> 1)
RateMono(e) == [m |-> e, p |-> POne, q |-> POne]

\* the reactions the lists are drawn from: duplicates of one (reactant,
\* product) pair, reactions with reactant = product, rates that are sums,
\* rates with denominators B, A + B and B*(A + B)
SetPool ==
    { Reaction(Id(1), CA, CB, RateMono(Mono(1, 0, 1, 0))),
      Reaction(Id(2), CA, CB, RateMono(Mono(1, 0, 0, 1))),
      Reaction(Id(0), CA, CB,
               [m |-> MOne, p |-> (Mono(1, 0, 1, 0) :> 1) @@ (Mono(2, 0, 0, 1) :> 1), q |-> POne]),
      Reaction(Id(3), CB, CA, RateMono(Mono(0, -1, 0, 1))),
      Reaction(Id(4), CA, CA, RateMono(Mono(1, 0, 1, 0))),
      Reaction(Id(5), CAB, CAB,
               [m |-> Mono(0, -1, 0, 0), p |-> (Mono(1, 0, 1, 0) :> 1) @@ (Mono(0, 1, 0, 1) :> 1), q |-> POne]),
      Reaction(Id(6), CB, CA, [m |-> Mono(0, 0, 1, 0), p |-> POne, q |-> PD]),
      Reaction(Id(7), C2A, CB, [m |-> Mono(1, -1, 1, 0), p |-> POne, q |-> PD]) }

Lists(pool, n) == UNION {[1..k -> pool] : k \in 0..n}

Laurent(rs) == \A i \in 1..Len(rs) : rs[i].rate.q = POne

\* the single reaction is not in use
ReactionIdle ==
    /\ reactionid = IdR1 /\ reactant = C0 /\ product = C0
    /\ rate = RateMono(K1) /\ kinetic_param = RateMono(K1)
    /\ pc = "idle" /\ fm = NoFm /\ ncalls = 0
    /\ last = [op |-> "init", arg |-> None, rep |-> FALSE, raised |-> FALSE,
               underflow |-> FALSE, changed |-> FALSE]

SetInit ==
    /\ ReactionIdle
    /\ setst \in {[op |-> "none", in |-> l, out |-> <<>>] : l \in Lists(SetPool, MaxLen)}
    /\ pathst = NoPath

SetDone(op, out) ==
    /\ setst' = [setst EXCEPT !.op = op, !.out = out]
    /\ UNCHANGED <<reactionid, reactant, product, rate, kinetic_param, pc, fm, last,
                   ncalls, pathst>>

DoSplit ==
    /\ setst.op = "none" /\ Len(setst.in) = 1
    /\ SetDone("split", SplitReaction(setst.in[1]))

DoMerge ==
    /\ setst.op = "none" /\ Laurent(setst.in)
    /\ SetDone("merge", MergeReactions(setst.in))

DoSplitMerge ==
    /\ setst.op = "none" /\ Len(setst.in) = 1 /\ Laurent(setst.in)
    /\ SetDone("split_merge", MergeReactions(SplitReaction(setst.in[1])))

DoSameDenom ==
    /\ setst.op = "none" /\ Len(setst.in) >= 1
    /\ SetDone("same_denom", SameDenom(setst.in))

SetNext == DoSplit \/ DoMerge \/ DoSplitMerge \/ DoSameDenom

SetSpec == SetInit /\ [][SetNext]_vars

\* the reactions the paths are drawn from
PathPairs ==
    { <<CA, CB>>, <<CB, CA>>, <<CA, CAB>>, <<CAB, CB>>, <<C2A, CB>>, <<CB, C2A>>,
      <<C0, CA>>, <<CA, C0>>, <<CAB, C2A>>, <<C2A, CAB>> }
PathPool == {Reaction(Id(1), x[1], x[2], ExprMulMono(RateMono(K1), ma(x[1]))) : x \in PathPairs}

PathInit ==
    /\ ReactionIdle
    /\ setst = NoSet
    /\ pathst \in {[NoPath EXCEPT !.in = l] : l \in Lists(PathPool, MaxPath)}

DoReactionPath ==
    /\ pathst.op = "none"
    /\ LET res == ReactionPath(pathst.in)
       IN  pathst' = [op |-> "reaction_path", in |-> pathst.in, out |-> res.out,
                      additions |-> res.additions, raw |-> res.raw, c |-> res.c,
                      raised |-> res.raised]
    /\ UNCHANGED <<reactionid, reactant, product, rate, kinetic_param, pc, fm, last,
                   ncalls, setst>>

PathNext == DoReactionPath

PathSpec == PathInit /\ [][PathNext]_vars

\* ------------------------------------------------- claims, one reaction
Net(r, p, s) == Coef(p, s) - Coef(r, s)

RECURSIVE AbsDegree(_, _, _)
AbsDegree(m, species, i) ==
    IF i > Len(species) THEN 0 ELSE Abs(m[species[i]]) + AbsDegree(m, species, i + 1)

\* C1 (invariant I1): whenever no call is running, after construction and
\* after every returned remove_react_prod, _fix_ma and _fix_denom,
\* (kinetic_param * reactant.ma() - rate).cancel() == 0.
C1_RateConsistency ==
    pc = "idle" => ExprEq(ExprMulMono(kinetic_param, ma(reactant)), rate)

\* a mutator has returned having changed the reactant, and the kinetic
\* parameter differs from the rate
C1_Witness ==
    /\ pc = "idle" /\ last.op \in {"remove_react_prod", "_fix_ma", "_fix_denom"}
    /\ last.changed
    /\ ma(reactant) # MOne
    /\ ncalls >= 2

\* C5: the while loop of _fix_ma ends.  Each pass is to lower the degree of
\* the remainder in the listed species, so the passes made never exceed the
\* degree the remainder had at entry (the sum over the listed species of the
\* absolute value of the exponent).
C5_FixMaTerminates ==
    pc = "fix_ma" => fm.iters <= AbsDegree(fm.rem0.m, fm.species, 1)

\* C6: a _fix_denom call with a listed species that divides the denominator
\* of the kinetic parameter and is missing from the reactant or from the
\* product ends in an error.
C6_UnderflowSignalled ==
    (last.op = "_fix_denom" /\ last.underflow) => last.raised

\* C9: after remove_react_prod() no species is on both sides; after
\* remove_react_prod(s) the species s is on at most one side, with
\* coefficient |reactant[s] - product[s]|; and a second call in succession
\* of the same form changes neither reactant nor product.
C9_RemoveIdempotent ==
    [][(ncalls' = ncalls + 1 /\ last'.op = "remove_react_prod") =>
         /\ last'.arg = None => DOMAIN reactant' \cap DOMAIN product' = {}
         /\ last'.arg # None =>
               /\ ~(last'.arg \in DOMAIN reactant' /\ last'.arg \in DOMAIN product')
               /\ Coef(reactant', last'.arg) + Coef(product', last'.arg)
                    = Abs(Coef(reactant, last'.arg) - Coef(product, last'.arg))
         /\ last'.rep => (reactant' = reactant /\ product' = product)]_vars

\* the same remove_react_prod call has been made twice in succession
C9_Witness ==
    /\ last.op = "remove_react_prod" /\ last.rep /\ pc = "idle"
    /\ \E s \in Species : Coef(reactant, s) + Coef(product, s) > 0

\* C10: every step of remove_react_prod, _fix_ma and _fix_denom leaves the
\* reaction id, the rate as a rational function and the net stoichiometry
\* product[s] - reactant[s] of every species as they were, and every stored
\* coefficient is >= 1.
C10_Frame ==
    [][/\ reactionid' = reactionid
       /\ ExprEq(rate', rate)
       /\ \A s \in Species : Net(reactant', product', s) = Net(reactant, product, s)
       /\ \A s \in DOMAIN reactant' : reactant'[s] >= 1
       /\ \A s \in DOMAIN product' : product'[s] >= 1]_vars

\* a _fix_denom call has removed a species from both sides and rewritten the rate
C10_Witness ==
    /\ pc = "idle" /\ last.op = "_fix_denom" /\ last.changed
    /\ ncalls >= 2

\* -------------------------------------------- claims, sets of reactions
SplitCase ==
    /\ setst.op = "split_merge"
    /\ PNumTerms(Numer(setst.in[1].rate)) >= 2

\* C2 as stated: for a reaction r whose expanded rate numerator has two terms
\* or more, merge_reactions(_split_reaction(r)) is a list of exactly one
\* reaction, equal to r under Reaction.__eq__.
C2_SplitMergeInverse ==
    SplitCase => /\ Len(setst.out) = 1
                 /\ ReactionEq(setst.out[1], setst.in[1])

\* C2 as amended: the same for a reaction whose reactant differs from its
\* product; for a reaction with reactant = product the result is the empty
\* list.
C2_SplitMergeInverseNoLoop ==
    SplitCase =>
        IF setst.in[1].reactant # setst.in[1].product
        THEN Len(setst.out) = 1 /\ ReactionEq(setst.out[1], setst.in[1])
        ELSE setst.out = <<>>

\* a reaction with a rate of two terms and reactant # product was split and
\* merged back
C2_Witness ==
    /\ SplitCase
    /\ setst.in[1].reactant # setst.in[1].product
    /\ Len(SplitReaction(setst.in[1])) >= 2
    /\ Len(setst.out) = 1

\* C7: every reaction in the output of _same_denom has a rate whose
\* denominator, as as_numer_denom() returns it, equals the least common
\* multiple of the denominators of the rates of the input reactions.
C7_SameDenominator ==
    setst.op = "same_denom" =>
        LET cd == CommonDenom(setst.in)
        IN  \A i \in 1..Len(setst.out) : Denom(setst.out[i].rate) = PShift(cd.q, cd.m)

RECURSIVE IdsOf(_, _, _)
IdsOf(rs, k, i) ==
    IF i > Len(rs) THEN <<>>
    ELSE (IF Key(rs[i]) = k THEN rs[i].reactionid ELSE <<>>) \o IdsOf(rs, k, i + 1)

RECURSIVE LaurentSum(_, _, _)
LaurentSum(rs, k, i) ==
    IF i > Len(rs) THEN Zero
    ELSE IF Key(rs[i]) = k
         THEN PAdd(PShift(rs[i].rate.p, rs[i].rate.m), LaurentSum(rs, k, i + 1))
         ELSE LaurentSum(rs, k, i + 1)

\* C8: merge_reactions returns exactly one reaction for each (reactant,
\* product) pair of the input with reactant # product and none for a pair
\* with reactant = product; the rate of a merged reaction is the sum of the
\* rates of the input reactions of its pair, its id the concatenation of
\* their ids in input order; the result is sorted by id.
C8_MergeOutput ==
    setst.op = "merge" =>
        LET in == setst.in
            out == setst.out
            pairs == {Key(in[i]) : i \in 1..Len(in)}
        IN  /\ \A k \in pairs :
                  Cardinality({j \in 1..Len(out) : Key(out[j]) = k})
                    = IF k[1] # k[2] THEN 1 ELSE 0
            /\ \A j \in 1..Len(out) :
                  /\ Key(out[j]) \in pairs
                  /\ out[j].reactionid = IdsOf(in, Key(out[j]), 1)
                  /\ out[j].rate.q = POne
                  /\ PShift(out[j].rate.p, out[j].rate.m) = LaurentSum(in, Key(out[j]), 1)
            /\ \A i, j \in 1..Len(out) :
                  i < j => StrLeq(out[i].reactionid, out[j].reactionid)

\* two reactions of one pair were merged, and sorting by id moved the merged
\* reaction before a reaction that came first in the input
C8_Witness ==
    /\ setst.op = "merge"
    /\ Len(setst.out) = 2
    /\ Len(setst.in) = 3
    /\ Key(setst.out[1]) # Key(setst.in[1])

\* ------------------------------------------------- claims, reaction_path
\* C3: for a list of two reactions or more, the product of translated[i] is
\* the reactant of translated[i+1] for every adjacent pair, and the common
\* intersection c subtracted from the additions is element-wise <= each of
\* them, so that the subtraction clips nothing.
C3_PathAligned ==
    (pathst.op = "reaction_path" /\ Len(pathst.in) >= 2) =>
        /\ ~pathst.raised
        /\ Len(pathst.out) = Len(pathst.in)
        /\ \A i \in 1..(Len(pathst.out) - 1) :
              pathst.out[i].product = pathst.out[i + 1].reactant
        /\ \A h \in 1..Len(pathst.raw) :
              /\ \A s \in Species : Coef(pathst.c, s) <= Coef(pathst.raw[h], s)
              /\ CAdd(pathst.additions[h], pathst.c) = pathst.raw[h]

\* three reactions that did not line up were translated, with a non-empty c
C3_Witness ==
    /\ pathst.op = "reaction_path" /\ Len(pathst.in) = 3
    /\ pathst.in[1].product # pathst.in[2].reactant
    /\ pathst.in[2].product # pathst.in[3].reactant
    /\ pathst.c # C0
    /\ \E h \in 1..3 : pathst.additions[h] # C0

\* C4: reaction_path of a list of no reaction or of one reaction returns
\* normally, with the reactions as given and no padding in the additions.
C4_ShortPathNoOp ==
    (pathst.op = "reaction_path" /\ Len(pathst.in) <= 1) =>
        /\ ~pathst.raised
        /\ pathst.out = pathst.in
        /\ \A h \in 1..Len(pathst.additions) : pathst.additions[h] = C0

=============================================================================
